---- MODULE Spec2Model ----
(***************************************************************************)
(* Model of pyhive/sqlalchemy_presto.py: the Presto dialect for SQLAlchemy.*)
(*                                                                         *)
(* Text is modelled as a sequence of fragments (strings) whose             *)
(* concatenation is the text; text that the code inspects character by     *)
(* character (table names, database paths, engine messages, the regular    *)
(* expression) is a sequence of one-character strings.                     *)
(* Python values are tagged records: PyNone, Str(s), PyInt(n).             *)
(***************************************************************************)
EXTENDS Integers, Sequences, FiniteSets, TLC

VARIABLES queries, call

vars == <<queries, call>>

(* ---------------------------------------------------------------------- *)
(* Bounds of the model                                                     *)
(* ---------------------------------------------------------------------- *)
MaxQueries == 1
MaxDbLen == 5
MaxBody == 3
MaxRows == 2

(* ---------------------------------------------------------------------- *)
(* Python values and text helpers                                          *)
(* ---------------------------------------------------------------------- *)
PyNone == [t |-> "none"]
Str(s) == [t |-> "str", v |-> s]
PyInt(n) == [t |-> "int", v |-> n]

\* Python truthiness of None / str
Truthy(x) == x.t = "str" /\ Len(x.v) > 0

SeqsUpTo(S, n) == UNION {[1..k -> S] : k \in 0..n}

\* str.split(sep) for a one-character separator: always at least one part
RECURSIVE SplitAcc(_, _, _)
SplitAcc(s, sep, cur) ==
    IF s = <<>> THEN <<cur>>
    ELSE IF Head(s) = sep THEN <<cur>> \o SplitAcc(Tail(s), sep, <<>>)
    ELSE SplitAcc(Tail(s), sep, Append(cur, Head(s)))

Split(s, sep) == SplitAcc(s, sep, <<>>)

(* ---------------------------------------------------------------------- *)
(* create_connect_args                                                     *)
(* ---------------------------------------------------------------------- *)
NoCall == [op |-> "idle"]
\* the caller holds no result and may invoke the next operation
Idle == call = NoCall

Returned(v) == [kind |-> "return", value |-> v]
Raised(cls, payload) == [kind |-> "raise", cls |-> cls, payload |-> payload]

DbChars == {"a", "/"}
Databases == {PyNone} \cup {Str(s) : s \in SeqsUpTo(DbChars, MaxDbLen)}
QueryKeys == {"host", "catalog", "schema", "source"}
QueryMaps == UNION {[K -> {Str(<<"q">>)}] : K \in SUBSET QueryKeys}
Urls == [host : {Str(<<"h">>)}, port : {PyInt(8080)},
         username : {PyNone, Str(<<"u">>)},
         database : Databases, query : QueryMaps]

\* dict.update(other): keys of other win
DictUpdate(d, other) == other @@ d
\* d[k] = v
DictSet(d, k, v) == (k :> v) @@ d

BaseKwargs(url) ==
    ("host" :> url.host) @@ ("port" :> url.port) @@ ("username" :> url.username)

\* kwargs with the path's catalog written, the schema forgotten
PathKwargsNoSchema(kwargs, db_parts) ==
    DictSet(kwargs, "catalog", Str(db_parts[1]))

PathKwargs(kwargs, db_parts) ==
    IF Len(db_parts) = 1
    THEN DictSet(kwargs, "catalog", Str(db_parts[1]))
    ELSE DictSet(DictSet(kwargs, "catalog", Str(db_parts[1])),
                 "schema", Str(db_parts[2]))

\* the message without the path
DatabaseFormatMessageBare(database) == <<"Unexpected database format ">>

DatabaseFormatMessage(database) ==
    <<"Unexpected database format ">> \o database.v

create_connect_args(url) ==
    IF url.database.t = "none"
    THEN \* None has no split()
         Raised("AttributeError", PyNone)
    ELSE LET db_parts == Split(url.database.v, "/")
             kwargs == DictUpdate(BaseKwargs(url), url.query)
         IN IF Len(db_parts) \in {1, 2}
            THEN Returned([args |-> <<>>, kwargs |-> PathKwargs(kwargs, db_parts)])
            ELSE Raised("ValueError", DatabaseFormatMessage(url.database))

CreateConnectArgs ==
    /\ Idle
    /\ \E url \in Urls :
           call' = [op |-> "create_connect_args", args |-> [url |-> url],
                    out |-> create_connect_args(url)]
    /\ UNCHANGED queries

(* ---------------------------------------------------------------------- *)
(* Identifier quoting and the describe-columns query                       *)
(* ---------------------------------------------------------------------- *)
\* IdentifierPreparer._escape_identifier: double every embedded quote
RECURSIVE EscapeIdentifier(_)
EscapeIdentifier(s) ==
    IF s = <<>> THEN <<>>
    ELSE (IF Head(s) = "\"" THEN <<"\"", "\"">> ELSE <<Head(s)>>)
         \o EscapeIdentifier(Tail(s))

\* identifier_preparer.quote_identifier(value): always quotes
quote_identifier(value) == <<"\"">> \o EscapeIdentifier(value) \o <<"\"">>

FullTable(table_name, schema) ==
    IF Truthy(schema)
    THEN quote_identifier(schema.v) \o <<".">> \o quote_identifier(table_name)
    ELSE quote_identifier(table_name)

ShowColumns(full_table) == <<"SHOW COLUMNS FROM ">> \o full_table

(* ---------------------------------------------------------------------- *)
(* The regular expression of _get_table_columns                            *)
(* ---------------------------------------------------------------------- *)
AlNum ==
    {"a", "b", "c", "d", "e", "f", "g", "h", "i", "j", "k", "l", "m", "n",
     "o", "p", "q", "r", "s", "t", "u", "v", "w", "x", "y", "z",
     "A", "B", "C", "D", "E", "F", "G", "H", "I", "J", "K", "L", "M", "N",
     "O", "P", "Q", "R", "S", "T", "U", "V", "W", "X", "Y", "Z",
     "0", "1", "2", "3", "4", "5", "6", "7", "8", "9"}

\* the table name put into the pattern as it is
ReEscapeIdentity(s) == s

\* re.escape: a backslash before every non-alphanumeric character
RECURSIVE ReEscape(_)
ReEscape(s) ==
    IF s = <<>> THEN <<>>
    ELSE (IF Head(s) \in AlNum THEN <<Head(s)>> ELSE <<"\\", Head(s)>>)
         \o ReEscape(Tail(s))

\* r"^Table\ \'.*{}\'\ does\ not\ exist$".format(re.escape(table_name))
TableRegex(table_name) ==
    <<"^", "T", "a", "b", "l", "e", "\\", " ", "\\", "'", ".", "*">>
    \o ReEscape(table_name)
    \o <<"\\", "'", "\\", " ", "d", "o", "e", "s", "\\", " ", "n", "o", "t",
         "\\", " ", "e", "x", "i", "s", "t", "$">>

\* the pattern text compiled to a sequence of elements
RECURSIVE ReCompile(_)
ReCompile(p) ==
    IF p = <<>> THEN <<>>
    ELSE IF Head(p) = "\\" /\ Len(p) >= 2
         THEN <<[k |-> "lit", c |-> p[2]]>> \o ReCompile(SubSeq(p, 3, Len(p)))
    ELSE IF Head(p) = "." /\ Len(p) >= 2 /\ p[2] = "*"
         THEN <<[k |-> "dotstar"]>> \o ReCompile(SubSeq(p, 3, Len(p)))
    ELSE IF Head(p) = "." THEN <<[k |-> "dot"]>> \o ReCompile(Tail(p))
    ELSE IF Head(p) = "^" THEN <<[k |-> "bol"]>> \o ReCompile(Tail(p))
    ELSE IF Head(p) = "$" THEN <<[k |-> "eol"]>> \o ReCompile(Tail(p))
    ELSE <<[k |-> "lit", c |-> Head(p)]>> \o ReCompile(Tail(p))

\* the elements es match s from position i on (backtracking over .*);
\* "." excludes the line break, "$" is the end or just before a final line break
RECURSIVE ReMatchAt(_, _, _)
ReMatchAt(es, s, i) ==
    IF es = <<>> THEN TRUE
    ELSE LET e == Head(es)
             rest == Tail(es)
         IN CASE e.k = "bol" -> i = 1 /\ ReMatchAt(rest, s, i)
              [] e.k = "eol" ->
                    /\ \/ i = Len(s) + 1
                       \/ i = Len(s) /\ s[i] = "\n"
                    /\ ReMatchAt(rest, s, i)
              [] e.k = "lit" ->
                    i <= Len(s) /\ s[i] = e.c /\ ReMatchAt(rest, s, i + 1)
              [] e.k = "dot" ->
                    i <= Len(s) /\ s[i] # "\n" /\ ReMatchAt(rest, s, i + 1)
              [] e.k = "dotstar" ->
                    \E j \in i..(Len(s) + 1) :
                        /\ \A k \in i..(j - 1) : s[k] # "\n"
                        /\ ReMatchAt(rest, s, j)

\* re.match(regex, msg)
ReMatch(regex, msg) == ReMatchAt(ReCompile(regex), msg, 1)

(* ---------------------------------------------------------------------- *)
(* The black-box client's responses to the describe-columns query          *)
(* ---------------------------------------------------------------------- *)
Tables == {<<"t">>, <<"t", ".", "t">>}
Schemas == {PyNone, Str(<<>>), Str(<<"s">>)}

Row(c, ty, n, pk) == [Column |-> c, Type |-> ty, Null |-> n, PartitionKey |-> pk]
RowDomain ==
    {Row("dt", "varchar", TRUE, TRUE),
     Row("region", "bigint", FALSE, TRUE),
     Row("id", "BIGINT", FALSE, FALSE),
     Row("flag", "boolean", TRUE, FALSE),
     Row("price", "double", TRUE, FALSE),
     Row("tags", "array<varchar>", TRUE, TRUE)}
RowSeqs == SeqsUpTo(RowDomain, MaxRows)

Dict(m) == [t |-> "dict", message |-> m]

MsgPrefixes ==
    {<<"T", "a", "b", "l", "e", " ", "'">>,
     <<"t", "a", "b", "l", "e", " ", "'">>}
MsgBodyChars == {"t", ".", "\n"}
MsgDoesNotExist ==
    <<"'", " ", "d", "o", "e", "s", " ", "n", "o", "t", " ", "e", "x", "i", "s", "t">>
MsgSuffixes ==
    {MsgDoesNotExist,
     MsgDoesNotExist \o <<"\n">>,
     MsgDoesNotExist \o <<"\n", "\n">>,
     MsgDoesNotExist \o <<" ", "b", "e", "c", "a", "u", "s", "e", " ",
                          "p", "e", "r", "m", "i", "s", "s", "i", "o", "n", "s">>}
Messages ==
    {<<>>} \cup
    {pre \o body \o suf : pre \in MsgPrefixes,
                           body \in SeqsUpTo(MsgBodyChars, MaxBody),
                           suf \in MsgSuffixes}

\* payloads of an engine error: a mapping with or without a message, or no mapping
Payloads ==
    {Dict(Str(m)) : m \in Messages} \cup {Dict(PyNone), Str(<<"b", "o", "o", "m">>)}

EngineError(cls, payload) == [kind |-> "error", cls |-> cls, payload |-> payload]
EngineRows(rows) == [kind |-> "rows", rows |-> rows]

\* presto.DatabaseError with any payload; an error of another class
Responses ==
    {EngineRows(rows) : rows \in RowSeqs}
    \cup {EngineError("presto.DatabaseError", p) : p \in Payloads}
    \cup {EngineError("OtherError", p) :
             p \in {Dict(Str(pre \o <<"t">> \o MsgDoesNotExist)) : pre \in MsgPrefixes}
                   \cup {Dict(PyNone)}}

(* ---------------------------------------------------------------------- *)
(* _get_table_columns                                                      *)
(* ---------------------------------------------------------------------- *)
\* msg = e.message.get('message') if isinstance(e.message, dict) else None
ErrorMessage(payload) == IF payload.t = "dict" THEN payload.message ELSE PyNone

\* if msg and re.match(regex, msg)
Reclassifies(table_name, payload) ==
    LET msg == ErrorMessage(payload)
    IN Truthy(msg) /\ ReMatch(TableRegex(table_name), msg.v)

\* the outcome of the step for the client's response resp
GetTableColumnsOutcome(table_name, resp) ==
    IF resp.kind = "rows" THEN Returned(resp.rows)
    ELSE IF resp.cls = "presto.DatabaseError" /\ Reclassifies(table_name, resp.payload)
         THEN Raised("NoSuchTableError", Str(table_name))
    ELSE Raised(resp.cls, resp.payload)

\* the query handed to connection.execute and the outcome of the step
get_table_columns(table_name, schema, resp) ==
    [query |-> ShowColumns(FullTable(table_name, schema)),
     out |-> GetTableColumnsOutcome(table_name, resp)]

(* ---------------------------------------------------------------------- *)
(* has_table                                                               *)
(* ---------------------------------------------------------------------- *)
\* every failure of the step taken for a missing table
HasTableResultSwallowing(step) ==
    IF step.out.kind = "return" THEN Returned(TRUE) ELSE Returned(FALSE)

HasTableResult(step) ==
    IF step.out.kind = "return" THEN Returned(TRUE)
    ELSE IF step.out.cls = "NoSuchTableError" THEN Returned(FALSE)
    ELSE step.out

HasTable ==
    /\ Idle
    /\ Len(queries) < MaxQueries
    /\ \E table_name \in Tables, schema \in Schemas, resp \in Responses :
        LET step == get_table_columns(table_name, schema, resp)
        IN /\ queries' = Append(queries, step.query)
           /\ call' = [op |-> "has_table",
                       args |-> [table_name |-> table_name, schema |-> schema],
                       resp |-> resp, step |-> step.out,
                       out |-> HasTableResult(step)]

(* ---------------------------------------------------------------------- *)
(* get_columns                                                             *)
(* ---------------------------------------------------------------------- *)
TypeMapKeys == {"bigint", "boolean", "double", "varchar"}
type_map ==
    [ty \in TypeMapKeys |->
        CASE ty = "bigint" -> "BigInteger"
          [] ty = "boolean" -> "Boolean"
          [] ty = "double" -> "Float"
          [] ty = "varchar" -> "String"]

\* coltype = _type_map[row.Type], types.NullType on KeyError
ColType(raw) == IF raw \in DOMAIN type_map THEN type_map[raw] ELSE "NullType"

ColumnDescriptor(row) ==
    [name |-> row.Column, type |-> ColType(row.Type),
     nullable |-> row.Null, default |-> PyNone]

\* the loop dropping the rows it does not recognize
RECURSIVE ColumnsLoopDropping(_)
ColumnsLoopDropping(rows) ==
    IF rows = <<>> THEN <<>>
    ELSE (IF Head(rows).Type \in DOMAIN type_map
          THEN <<ColumnDescriptor(Head(rows))>> ELSE <<>>)
         \o ColumnsLoopDropping(Tail(rows))

\* for row in rows: result.append({...})
RECURSIVE ColumnsLoop(_)
ColumnsLoop(rows) ==
    IF rows = <<>> THEN <<>>
    ELSE <<ColumnDescriptor(Head(rows))>> \o ColumnsLoop(Tail(rows))

\* util.warn for every row whose type is not in _type_map
RECURSIVE ColumnWarnings(_)
ColumnWarnings(rows) ==
    IF rows = <<>> THEN <<>>
    ELSE (IF Head(rows).Type \in DOMAIN type_map THEN <<>>
          ELSE <<[Type |-> Head(rows).Type, Column |-> Head(rows).Column]>>)
         \o ColumnWarnings(Tail(rows))

GetColumns ==
    /\ Idle
    /\ Len(queries) < MaxQueries
    /\ \E table_name \in Tables, schema \in Schemas, resp \in Responses :
        \* rows = self._get_table_columns(connection, table_name, None)
        LET step == get_table_columns(table_name, PyNone, resp)
        IN /\ queries' = Append(queries, step.query)
           /\ call' = [op |-> "get_columns",
                       args |-> [table_name |-> table_name, schema |-> schema],
                       resp |-> resp, step |-> step.out,
                       warnings |-> IF step.out.kind = "return"
                                    THEN ColumnWarnings(step.out.value) ELSE <<>>,
                       out |-> IF step.out.kind = "return"
                               THEN Returned(ColumnsLoop(step.out.value))
                               ELSE step.out]

(* ---------------------------------------------------------------------- *)
(* get_indexes                                                             *)
(* ---------------------------------------------------------------------- *)
\* the flagged names, last row first
RECURSIVE PartitionColumnsReversed(_)
PartitionColumnsReversed(rows) ==
    IF rows = <<>> THEN <<>>
    ELSE PartitionColumnsReversed(Tail(rows))
         \o (IF Head(rows).PartitionKey THEN <<Head(rows).Column>> ELSE <<>>)

\* for row in rows: if row['Partition Key']: col_names.append(row['Column'])
RECURSIVE PartitionColumns(_)
PartitionColumns(rows) ==
    IF rows = <<>> THEN <<>>
    ELSE (IF Head(rows).PartitionKey THEN <<Head(rows).Column>> ELSE <<>>)
         \o PartitionColumns(Tail(rows))

IndexesOf(col_names) ==
    IF col_names # <<>>
    THEN <<[name |-> "partition", column_names |-> col_names, unique |-> FALSE]>>
    ELSE <<>>

GetIndexes ==
    /\ Idle
    /\ Len(queries) < MaxQueries
    /\ \E table_name \in Tables, schema \in Schemas, resp \in Responses :
        \* rows = self._get_table_columns(connection, table_name, None)
        LET step == get_table_columns(table_name, PyNone, resp)
        IN /\ queries' = Append(queries, step.query)
           /\ call' = [op |-> "get_indexes",
                       args |-> [table_name |-> table_name, schema |-> schema],
                       resp |-> resp, step |-> step.out,
                       out |-> IF step.out.kind = "return"
                               THEN Returned(IndexesOf(PartitionColumns(step.out.value)))
                               ELSE step.out]

(* ---------------------------------------------------------------------- *)
(* get_table_names                                                         *)
(* ---------------------------------------------------------------------- *)
ShowTables(schema) ==
    IF Truthy(schema)
    THEN <<"SHOW TABLES", " FROM ">> \o quote_identifier(schema.v)
    ELSE <<"SHOW TABLES">>

TableNameRows == SeqsUpTo(Tables, 2)

GetTableNames ==
    /\ Idle
    /\ Len(queries) < MaxQueries
    /\ \E schema \in Schemas, names \in TableNameRows :
        /\ queries' = Append(queries, ShowTables(schema))
        /\ call' = [op |-> "get_table_names", args |-> [schema |-> schema],
                    out |-> Returned(names)]

(* ---------------------------------------------------------------------- *)
(* do_rollback                                                             *)
(* ---------------------------------------------------------------------- *)
\* a rollback that sends a statement
do_rollback_issuing(qs) == Append(qs, <<"ROLLBACK">>)

\* pass: the queries handed to the client stay as they are
do_rollback(qs) == qs

DoRollback ==
    /\ Idle
    /\ queries' = do_rollback(queries)
    /\ call' = [op |-> "do_rollback", out |-> Returned(PyNone)]

(* ---------------------------------------------------------------------- *)
(* JsonExtractScalar and PrestoCompiler.visit_json_extract_scalar          *)
(* ---------------------------------------------------------------------- *)
reserved_words ==
    {"all", "alter", "and", "approximate", "array", "as", "asc", "at",
     "bernoulli", "between", "bigint", "boolean", "by", "case", "cast",
     "catalog", "catalogs", "char", "character", "coalesce", "columns",
     "confidence", "constraint", "create", "cross", "current", "current_date",
     "current_time", "current_timestamp", "date", "day", "dec", "decimal",
     "desc", "describe", "distinct", "distributed", "double", "drop", "else",
     "end", "escape", "except", "exists", "explain", "extract", "false",
     "first", "following", "for", "format", "from", "full", "functions",
     "graphviz", "group", "having", "hour", "if", "in", "inner", "insert",
     "int", "integer", "intersect", "interval", "into", "is", "join", "json",
     "json_extract_scalar", "last", "left", "like", "limit", "localtime",
     "localtimestamp", "logical", "minute", "month", "natural", "not", "null",
     "nullif", "nulls", "number", "numeric", "on", "or", "order", "outer",
     "over", "partition", "partitions", "poissonized", "preceding", "range",
     "recursive", "rename", "replace", "rescaled", "right", "row", "rows",
     "schema", "schemas", "second", "select", "show", "stratify", "substring",
     "system", "table", "tables", "tablesample", "text", "then", "time",
     "timestamp", "to", "true", "try_cast", "type", "unbounded", "union",
     "use", "using", "values", "varchar", "varying", "view", "when", "where",
     "with", "year", "zone"}

ColumnClause(name) == [k |-> "column", name |-> name]
BindParameter(value) == [k |-> "bindparam", value |-> value]

\* elements._literal_as_binds: a clause stays, a plain value becomes a bound parameter
literal_as_binds(x) == IF x.k = "value" THEN BindParameter(x.v) ELSE x

\* JsonExtractScalar.__init__
JsonExtractScalar(column, json_field, type_) ==
    [type |-> type_,
     column_clause |-> ColumnClause(column),
     json_field_clause |-> literal_as_binds(json_field)]

\* clause._compiler_dispatch(compiler, **kwargs): a column is its name, quoted when
\* the preparer's reserved words hold it; a bound parameter is a placeholder, or the
\* quoted value when the compiler renders binds inline
CompilerDispatch(clause, kwargs) ==
    IF clause.k = "column"
    THEN IF clause.name \in reserved_words
         THEN <<"\"", clause.name, "\"">> ELSE <<clause.name>>
    ELSE IF kwargs.literal_binds
         THEN <<"'", clause.value, "'">>
         ELSE <<"%(", "param_1", ")s">>

\* the two renderings in the other order
visit_json_extract_scalar_swapped(json_extract, kwargs) ==
    <<"json_extract_scalar(to_json(">>
    \o CompilerDispatch(json_extract.json_field_clause, kwargs)
    \o <<"), ">>
    \o CompilerDispatch(json_extract.column_clause, kwargs)
    \o <<")">>

\* "json_extract_scalar(to_json(%s), %s)" % (column_clause ..., json_field_clause ...)
visit_json_extract_scalar(json_extract, kwargs) ==
    <<"json_extract_scalar(to_json(">>
    \o CompilerDispatch(json_extract.column_clause, kwargs)
    \o <<"), ">>
    \o CompilerDispatch(json_extract.json_field_clause, kwargs)
    \o <<")">>

ColumnNames == {"data", "select"}
PlainValue(v) == [k |-> "value", v |-> v]
JsonFields == {PlainValue("$.field"), PlainValue("$.a"), ColumnClause("path")}
ResultTypes == {"String", "NullType"}
CompileKwargs == [literal_binds : BOOLEAN]

\* json_extract_scalar(column, json_field, type_): the node, no text yet
Construct ==
    /\ Idle
    /\ \E column \in ColumnNames, json_field \in JsonFields, type_ \in ResultTypes :
          call' = [op |-> "json_extract_scalar",
                   args |-> [column |-> column, json_field |-> json_field,
                             type_ |-> type_],
                   out |-> Returned(JsonExtractScalar(column, json_field, type_))]
    /\ UNCHANGED queries

\* the statement holding the node is compiled to text
Compile ==
    /\ call.op = "json_extract_scalar"
    /\ \E kwargs \in CompileKwargs :
          LET node == call.out.value
          IN call' = [op |-> "compile",
                      args |-> [construct |-> call.args, node |-> node,
                                kwargs |-> kwargs],
                      out |-> Returned(visit_json_extract_scalar(node, kwargs))]
    /\ UNCHANGED queries

\* the caller takes the outcome of the last operation
CallerContinues ==
    /\ ~Idle
    /\ call' = NoCall
    /\ UNCHANGED queries

(* ---------------------------------------------------------------------- *)
(* Specification                                                           *)
(* ---------------------------------------------------------------------- *)
Init ==
    /\ queries = <<>>
    /\ call = NoCall

Next ==
    \/ CreateConnectArgs
    \/ HasTable
    \/ GetColumns
    \/ GetIndexes
    \/ GetTableNames
    \/ DoRollback
    \/ Construct
    \/ Compile
    \/ CallerContinues

Spec == Init /\ [][Next]_vars

(* ---------------------------------------------------------------------- *)
(* Properties                                                              *)
(* ---------------------------------------------------------------------- *)
DescribeOps == {"has_table", "get_columns", "get_indexes"}
LastQuery == queries[Len(queries)]
TablePrefix == <<"T", "a", "b", "l", "e", " ", "'">>
ExactMessage(t) == TablePrefix \o t \o MsgDoesNotExist
IsReclassified == call.op \in DescribeOps /\ call.step.kind = "raise"
                  /\ call.step.cls = "NoSuchTableError"
OriginalError == Raised(call.resp.cls, call.resp.payload)

\* C1: has_table returns true when the describe-columns step completes, false
\* exactly when the step raises the reclassified NoSuchTableError (which only an
\* engine error with a mapping payload holding a message can become), and hands
\* every other engine error on as the original error; an engine error never
\* yields true.
C1_HasTableOutcomes ==
    call.op = "has_table" =>
        /\ call.resp.kind = "rows" => call.out = Returned(TRUE)
        /\ call.out.kind = "return" =>
              (call.out.value = FALSE <=> IsReclassified)
        /\ IsReclassified =>
              /\ call.out = Returned(FALSE)
              /\ call.resp.kind = "error"
              /\ call.resp.cls = "presto.DatabaseError"
              /\ call.resp.payload.t = "dict"
              /\ call.resp.payload.message.t = "str"
        /\ (call.resp.kind = "error" /\ ~IsReclassified) =>
              call.out = OriginalError
        /\ call.resp.kind = "error" => call.out # Returned(TRUE)

C1_Witness ==
    /\ call.op = "has_table"
    /\ call.resp.kind = "error"
    /\ call.resp.payload = Dict(PyNone)
    /\ call.out = Raised("presto.DatabaseError", Dict(PyNone))

\* C2 as stated: an engine error is reclassified only when its message is exactly
\* Table '<table_name>' does not exist for the requested table name.
C2_ExactMessageOnly ==
    IsReclassified =>
        call.resp.payload.message.v = ExactMessage(call.args.table_name)

\* m is Table '<p><t>' does not exist, p any text without a line break
NamesTableEndingWith(t, m) ==
    /\ Len(m) >= Len(TablePrefix) + Len(t) + Len(MsgDoesNotExist)
    /\ SubSeq(m, 1, Len(TablePrefix)) = TablePrefix
    /\ SubSeq(m, Len(m) - Len(MsgDoesNotExist) - Len(t) + 1, Len(m))
          = t \o MsgDoesNotExist
    /\ \A k \in (Len(TablePrefix) + 1)..(Len(m) - Len(MsgDoesNotExist) - Len(t)) :
          m[k] # "\n"

\* C2 amended: an engine error of the client's DatabaseError class is reclassified
\* exactly when its payload is a mapping whose message is
\* Table '<p><table_name>' does not exist, p any (possibly empty) text without a
\* line break, optionally followed by one final line break; every other error is
\* raised again unchanged.
C2_SuffixMessageOnly ==
    (call.op \in DescribeOps /\ call.resp.kind = "error") =>
        LET t == call.args.table_name
            p == call.resp.payload
            matches ==
                /\ call.resp.cls = "presto.DatabaseError"
                /\ p.t = "dict"
                /\ p.message.t = "str"
                /\ \/ NamesTableEndingWith(t, p.message.v)
                   \/ /\ Len(p.message.v) > 0
                      /\ p.message.v[Len(p.message.v)] = "\n"
                      /\ NamesTableEndingWith(
                            t, SubSeq(p.message.v, 1, Len(p.message.v) - 1))
        IN /\ matches <=> IsReclassified
           /\ IsReclassified => call.step = Raised("NoSuchTableError", Str(t))
           /\ ~IsReclassified => call.step = OriginalError

\* a message naming a longer table was reclassified
C2_Witness ==
    /\ IsReclassified
    /\ call.args.table_name = <<"t">>
    /\ call.resp.payload.message.v = ExactMessage(<<".", "t">>)

\* C3 as stated: get_columns, get_indexes and has_table hand the client
\* SHOW COLUMNS FROM <quoted schema>.<quoted table> when a non-empty schema is
\* given and SHOW COLUMNS FROM <quoted table> otherwise.
C3_SameDescribeQuery ==
    call.op \in DescribeOps =>
        LET t == call.args.table_name
            s == call.args.schema
        IN LastQuery =
              IF s.t = "str" /\ s.v # <<>>
              THEN <<"SHOW COLUMNS FROM ", "\"">> \o s.v \o <<"\"", ".", "\"">>
                   \o t \o <<"\"">>
              ELSE <<"SHOW COLUMNS FROM ", "\"">> \o t \o <<"\"">>

RECURSIVE CountChar(_, _)
CountChar(s, c) ==
    IF s = <<>> THEN 0
    ELSE (IF Head(s) = c THEN 1 ELSE 0) + CountChar(Tail(s), c)

IsConnect == call.op = "create_connect_args"
Url == call.args.url
Kwargs == call.out.value.kwargs

\* C4 as stated: with no path segment create_connect_args succeeds and the kwargs
\* hold no catalog and no schema that comes from the path.
C4_EmptyPathNoCatalog ==
    (IsConnect /\ (Url.database.t = "none" \/ Url.database.v = <<>>)) =>
        /\ call.out.kind = "return"
        /\ \A k \in {"catalog", "schema"} :
              k \in DOMAIN Kwargs => (k \in DOMAIN Url.query /\ Kwargs[k] = Url.query[k])

\* the text before the first "/" and the text after it
FirstSegment(s) == SubSeq(s, 1, (CHOOSE i \in 1..(Len(s) + 1) :
                                     /\ i = Len(s) + 1 \/ s[i] = "/"
                                     /\ \A j \in 1..(i - 1) : s[j] # "/") - 1)
AfterFirstSegment(s) == SubSeq(s, Len(FirstSegment(s)) + 2, Len(s))

PathCatalogSchema ==
    LET db == Url.database.v
        n == CountChar(db, "/") + 1
    IN /\ Kwargs["catalog"] = Str(FirstSegment(db))
       /\ n = 2 => Kwargs["schema"] = Str(AfterFirstSegment(db))
       /\ (n = 1 /\ "schema" \in DOMAIN Kwargs) =>
             ("schema" \in DOMAIN Url.query /\ Kwargs["schema"] = Url.query["schema"])

\* C5 as stated: catalog and schema follow the path, host, port and username are
\* the locator's, and every query parameter is in the kwargs under its own key
\* with its own value.
C5_LocatorAndQueryVerbatim ==
    (IsConnect /\ call.out.kind = "return") =>
        /\ PathCatalogSchema
        /\ Kwargs["host"] = Url.host
        /\ Kwargs["port"] = Url.port
        /\ Kwargs["username"] = Url.username
        /\ \A k \in DOMAIN Url.query : k \in DOMAIN Kwargs /\ Kwargs[k] = Url.query[k]

\* C5 amended: a path of one segment gives catalog = segment[0] and no schema
\* from the path, a path of two gives catalog = segment[0] and schema =
\* segment[1]; host, port and username are the locator's unless a query parameter
\* of that name replaces them; every query parameter is in the kwargs under its
\* own key, with its own value unless the path's catalog or schema replaces it.
C5_LocatorQueryThenPath ==
    (IsConnect /\ call.out.kind = "return") =>
        LET n == CountChar(Url.database.v, "/") + 1
            fromPath == IF n = 2 THEN {"catalog", "schema"} ELSE {"catalog"}
        IN /\ n \in {1, 2}
           /\ call.out.value.args = <<>>
           /\ DOMAIN Kwargs =
                 {"host", "port", "username"} \cup DOMAIN Url.query \cup fromPath
           /\ PathCatalogSchema
           /\ \A k \in {"host", "port", "username"} :
                 Kwargs[k] = IF k \in DOMAIN Url.query THEN Url.query[k] ELSE Url[k]
           /\ \A k \in DOMAIN Url.query :
                 k \in DOMAIN Kwargs /\ (k \notin fromPath => Kwargs[k] = Url.query[k])

\* two segments, with query parameters named host, catalog and schema
C5_Witness ==
    /\ IsConnect
    /\ call.out.kind = "return"
    /\ Url.database = Str(<<"a", "/", "a", "a">>)
    /\ {"host", "catalog", "schema"} \subseteq DOMAIN Url.query
    /\ Kwargs["schema"] = Str(<<"a", "a">>)
    /\ Kwargs["host"] = Str(<<"q">>)

\* C6: with more than two path segments create_connect_args fails with a
\* ValueError whose message ends with the raw path, and returns no kwargs.
C6_TooManySegmentsFails ==
    (IsConnect /\ Url.database.t = "str" /\ CountChar(Url.database.v, "/") >= 2) =>
        /\ call.out.kind = "raise"
        /\ call.out.cls = "ValueError"
        /\ LET msg == call.out.payload
               db == Url.database.v
           IN /\ Len(msg) = 1 + Len(db)
              /\ msg[1] = "Unexpected database format "
              /\ SubSeq(msg, 2, Len(msg)) = db

C6_Witness ==
    /\ IsConnect
    /\ Url.database = Str(<<"a", "/", "a", "/", "a">>)
    /\ call.out.kind = "raise"
    /\ call.out.cls = "ValueError"

\* C7: get_indexes returns nothing when no row has the partition-key flag, and
\* otherwise one index named "partition", not unique, over the names of exactly
\* the flagged rows in the engine's row order.
C7_PartitionIndex ==
    (call.op = "get_indexes" /\ call.resp.kind = "rows") =>
        LET rows == call.resp.rows
            flagged == {i \in 1..Len(rows) : rows[i].PartitionKey}
        IN /\ call.out.kind = "return"
           /\ flagged = {} => call.out.value = <<>>
           /\ flagged # {} =>
                 /\ Len(call.out.value) = 1
                 /\ call.out.value[1].name = "partition"
                 /\ call.out.value[1].unique = FALSE
                 /\ LET cn == call.out.value[1].column_names
                    IN /\ Len(cn) = Cardinality(flagged)
                       /\ \E f \in [1..Len(cn) -> flagged] :
                             /\ \A a, b \in 1..Len(cn) : a < b => f[a] < f[b]
                             /\ \A a \in 1..Len(cn) : cn[a] = rows[f[a]].Column

C7_Witness ==
    /\ call.op = "get_indexes"
    /\ call.out.kind = "return"
    /\ Len(call.out.value) = 1
    /\ call.out.value[1].column_names = <<"dt", "region">>

\* C8: get_columns returns one descriptor per row in the engine's row order, each
\* with the row's name and nullability and no default; a raw type outside
\* bigint, boolean, double, varchar gets the null type, with a warning for that
\* row only, and the call still returns.
C8_ColumnPerRow ==
    (call.op = "get_columns" /\ call.resp.kind = "rows") =>
        LET rows == call.resp.rows
            unknown == {i \in 1..Len(rows) :
                           rows[i].Type \notin {"bigint", "boolean", "double", "varchar"}}
        IN /\ call.out.kind = "return"
           /\ Len(call.out.value) = Len(rows)
           /\ \A i \in 1..Len(rows) :
                 /\ call.out.value[i].name = rows[i].Column
                 /\ call.out.value[i].nullable = rows[i].Null
                 /\ call.out.value[i].default = PyNone
                 /\ call.out.value[i].type =
                       CASE rows[i].Type = "bigint" -> "BigInteger"
                         [] rows[i].Type = "boolean" -> "Boolean"
                         [] rows[i].Type = "double" -> "Float"
                         [] rows[i].Type = "varchar" -> "String"
                         [] OTHER -> "NullType"
           /\ Len(call.warnings) = Cardinality(unknown)

\* an unknown type first, a known one after it
C8_Witness ==
    /\ call.op = "get_columns"
    /\ call.out.kind = "return"
    /\ Len(call.out.value) = 2
    /\ call.out.value[1] = [name |-> "id", type |-> "NullType",
                            nullable |-> FALSE, default |-> PyNone]
    /\ call.out.value[2].type = "BigInteger"

IsCompileOfExample ==
    /\ call.op = "compile"
    /\ call.args.construct.column = "data"
    /\ call.args.construct.json_field = PlainValue("$.field")

\* C9 as stated: the node built from column data and field '$.field' renders as
\* exactly json_extract_scalar(to_json(data), '$.field').
C9_ExampleRendersLiteral ==
    IsCompileOfExample =>
        call.out.value =
            <<"json_extract_scalar(to_json(", "data", "), ", "'", "$.field", "'", ")">>

\* C9 amended: the node built from column data and field '$.field' renders as
\* json_extract_scalar(to_json(data), F), F being '$.field' when the compiler
\* renders bound parameters inline and a bound-parameter placeholder otherwise;
\* in general the text is json_extract_scalar(to_json(C), F) with C and F the
\* renderings of the column and of the field expression by the compiling
\* compiler, and the constructed node holds clauses, no text.
C9_RendersThroughCompiler ==
    /\ IsCompileOfExample =>
          call.out.value =
              IF call.args.kwargs.literal_binds
              THEN <<"json_extract_scalar(to_json(", "data", "), ",
                     "'", "$.field", "'", ")">>
              ELSE <<"json_extract_scalar(to_json(", "data", "), ",
                     "%(", "param_1", ")s", ")">>
    /\ call.op = "compile" =>
          LET c == call.args.construct
              col == IF c.column = "select" THEN <<"\"", "select", "\"">>
                     ELSE <<c.column>>
              field == IF c.json_field.k = "column" THEN <<c.json_field.name>>
                       ELSE IF call.args.kwargs.literal_binds
                            THEN <<"'", c.json_field.v, "'">>
                            ELSE <<"%(", "param_1", ")s">>
          IN call.out.value =
                <<"json_extract_scalar(to_json(">> \o col \o <<"), ">> \o field \o <<")">>
    /\ call.op = "json_extract_scalar" =>
          /\ call.out.value.column_clause = [k |-> "column", name |-> call.args.column]
          /\ call.out.value.json_field_clause.k \in {"column", "bindparam"}

C9_Witness ==
    /\ IsCompileOfExample
    /\ ~call.args.kwargs.literal_binds
    /\ call.out.value =
          <<"json_extract_scalar(to_json(", "data", "), ", "%(", "param_1", ")s", ")">>

\* C10: do_rollback returns without raising, hands the client no query and
\* leaves everything but its own return as it was.
C10_RollbackNoOp ==
    [][call'.op = "do_rollback" =>
          /\ queries' = queries
          /\ call'.out = Returned(PyNone)]_vars

C10_Witness ==
    /\ call.op = "do_rollback"
    /\ Len(queries) >= 1

====
